---- MODULE Spec2Model ----
(***************************************************************************)
(* Model of the trivia REST backend (backend/flaskr/__init__.py).          *)
(*                                                                         *)
(* State: the questions table (rows in physical storage order), the id     *)
(* sequence of that table, the categories table, and the last request      *)
(* served together with its response and the table as it was before it.   *)
(* One action per endpoint; each action is the whole handler.              *)
(*                                                                         *)
(* Python's None is the empty sequence <<>>, a value v is <<v>>.           *)
(* Text is a sequence of one-character strings.                            *)
(***************************************************************************)
EXTENDS Integers, Sequences, FiniteSets, TLC

VARIABLES rows, nextId, categories, writes, before, request, response

vars == <<rows, nextId, categories, writes, before, request, response>>

\* ------------------------------------------------------------------ bounds

QUESTIONS_PER_PAGE == 10

\* Largest number of questions in the table at start.
MaxInit == 11

\* Number of creating or deleting requests in one behaviour.
MaxWrites == 1

\* Requested page numbers range over -MaxPage..MaxPage.
MaxPage == 2

\* ------------------------------------------------------------------ values

None == <<>>

Some(v) == <<v>>

Min(a, b) == IF a < b THEN a ELSE b

Max(a, b) == IF a > b THEN a ELSE b

\* Question texts and answers stored or submitted.
Texts == { <<"A", "b">>, <<"b", "a">>, <<"c">> }

AnswerText == <<"x">>

\* Search terms submitted; the empty term is falsy in Python.
SearchTerms == { <<>>, <<"a">>, <<"a", "B">>, <<"d">>, <<"_">>, <<"%">> }

\* The categories table: read-only through the API.
CategoryTable == { [id |-> 1, type |-> "Science"], [id |-> 2, type |-> "Art"] }

\* Category ids that requests and questions use: 3 names no category
\* (referential integrity is not enforced on write).
CategoryIds == {1, 2, 3}

\* The ?page= query parameter: absent or malformed (None) or an integer.
PageArgs == {None} \cup { Some(p) : p \in (0 - MaxPage)..MaxPage }

\* The page arguments tried on the endpoints other than GET /questions.
FewPageArgs == {None, Some(0 - 1), Some(MaxPage)}

\* ------------------------------------------------------------------ storage

\* The fields of a Question row. The four data columns are nullable: each holds
\* None or one value.
Row(i, q, a, c, d) ==
    [id |-> i, question |-> q, answer |-> a, category |-> c, difficulty |-> d]

\* Question.format(): the row as the dictionary that is serialised.
Format(q) ==
    [id |-> q.id, question |-> q.question, answer |-> q.answer,
     category |-> q.category, difficulty |-> q.difficulty]

Ids(s) == { s[i].id : i \in 1..Len(s) }

RowSet(s) == { s[i] : i \in 1..Len(s) }

\* Question.insert(): the table appends the row under the next id of its sequence;
\* q, a, c, d are the column values, None for NULL.
QuestionInsert(table, seqId, q, a, c, d) ==
    [rows |-> Append(table, Row(seqId, q, a, c, d)), id |-> seqId, nextId |-> seqId + 1]

\* Question.delete(): the row with this id leaves the table.
QuestionDelete(table, id) == SelectSeq(table, LAMBDA r : r.id # id)

\* OneOrNone with the id filter lost: the first row of the table.
OneOrNone_Unfiltered(table, id) ==
    IF table = <<>> THEN None ELSE Some(table[1])

\* Query.filter(Question.id == id).one_or_none()
OneOrNone(table, id) ==
    LET hit == SelectSeq(table, LAMBDA r : r.id = id)
    IN IF hit = <<>> THEN None ELSE Some(hit[1])

RECURSIVE SortById(_)
\* Query.order_by(Question.id).all(): ascending ids (ids are unique).
SortById(s) ==
    IF s = <<>> THEN <<>>
    ELSE LET m == CHOOSE i \in 1..Len(s) : \A j \in 1..Len(s) : s[i].id <= s[j].id
             rest == [k \in 1..(Len(s) - 1) |-> IF k < m THEN s[k] ELSE s[k + 1]]
         IN <<s[m]>> \o SortById(rest)

\* Category.query.filter(Category.id == id).one_or_none()
CategoryOrNone(cats, id) ==
    IF \E c \in cats : c.id = id
    THEN Some(CHOOSE c \in cats : c.id = id)
    ELSE None

\* {cat.id: cat.type for cat in categories}: the mapping as a set of pairs.
CatDict(cats) == { <<c.id, c.type>> : c \in cats }

\* ------------------------------------------------------------------ text

\* Lower-casing of one character, as ILIKE compares.
Lower(ch) ==
    CASE ch = "A" -> "a"
      [] ch = "B" -> "b"
      [] ch = "C" -> "c"
      [] ch = "D" -> "d"
      [] OTHER -> ch

LowerText(t) == [i \in 1..Len(t) |-> Lower(t[i])]

RECURSIVE LikeMatch(_, _)
\* SQL LIKE: in the pattern % matches any run of characters, _ any one character.
LikeMatch(pat, t) ==
    IF pat = <<>> THEN t = <<>>
    ELSE IF Head(pat) = "%"
         THEN LikeMatch(Tail(pat), t) \/ (t # <<>> /\ LikeMatch(pat, Tail(t)))
         ELSE IF Head(pat) = "_"
              THEN t # <<>> /\ LikeMatch(Tail(pat), Tail(t))
              ELSE t # <<>> /\ Head(pat) = Head(t) /\ LikeMatch(Tail(pat), Tail(t))

\* Question.question.ilike('%{}%'.format(search))
ILike(text, search) ==
    LikeMatch(LowerText(<<"%">> \o search \o <<"%">>), LowerText(text))

\* ------------------------------------------------------------------ pagination

\* Python's s[start:end] with negative indices counted from the end.
PySlice(s, start, end) ==
    LET n == Len(s)
        norm(i) == IF i < 0 THEN Max(i + n, 0) ELSE Min(i, n)
        lo == norm(start)
        hi == norm(end)
    IN IF lo < hi THEN SubSeq(s, lo + 1, hi) ELSE <<>>

\* paginate_questions with the start computed from page instead of page - 1.
paginate_questions_OffByOne(pageArg, selection, page_num) ==
    LET page == IF pageArg = None THEN page_num ELSE pageArg[1]
        start == page * QUESTIONS_PER_PAGE
        end == start + QUESTIONS_PER_PAGE
        questions == [i \in 1..Len(selection) |-> Format(selection[i])]
    IN PySlice(questions, start, end)

paginate_questions(pageArg, selection, page_num) ==
    LET page == IF pageArg = None THEN page_num ELSE pageArg[1]
        start == (page - 1) * QUESTIONS_PER_PAGE
        end == start + QUESTIONS_PER_PAGE
        questions == [i \in 1..Len(selection) |-> Format(selection[i])]
    IN PySlice(questions, start, end)

\* math.ceil(n / 10) for n >= 0
Ceil10(n) == (n + 9) \div 10

\* ------------------------------------------------------------------ requests

\* A body field: absent from the JSON object, null, or a value.
Absent(default) == [kind |-> "absent", v |-> default]

Null(default) == [kind |-> "null", v |-> default]

Val(x) == [kind |-> "value", v |-> x]

\* body.get(key, None): None when the key is absent or its value is null.
BodyGet(f) == IF f.kind = "value" THEN Some(f.v) ELSE None

NoBody ==
    [searchTerm |-> Absent(<<>>), question |-> Absent(<<>>), answer |-> Absent(<<>>),
     category |-> Absent(0), difficulty |-> Absent(0),
     previous_questions |-> Absent({}), quiz_category |-> Absent(0)]

NoRequest == [op |-> "none", id |-> 0, page |-> None, body |-> NoBody]

Request(op, id, page, body) == [op |-> op, id |-> id, page |-> page, body |-> body]

\* ------------------------------------------------------------------ responses

NoResponse ==
    [status |-> 0, keys |-> {}, success |-> FALSE, error |-> 0, message |-> "",
     questions |-> <<>>, total_questions |-> 0, deleted |-> 0, created |-> 0,
     current_category |-> "", question |-> None, categories |-> {}]

\* jsonify({'success': True, ...}) with status 200: keys names the fields present.
Ok(keys) == [NoResponse EXCEPT !.status = 200, !.success = TRUE, !.keys = keys \cup {"success"}]

ErrorEnvelope(code, text) ==
    [NoResponse EXCEPT !.status = code, !.error = code, !.message = text,
                       !.keys = {"success", "error", "message"}]

bad_request == ErrorEnvelope(400, "bad request")

not_found == ErrorEnvelope(404, "resource not found")

not_allowed == ErrorEnvelope(405, "method not allowed")

unprocessable == ErrorEnvelope(422, "unprocessable")

\* abort(code) reaching the application's error handlers.
Abort(code) ==
    CASE code = 400 -> bad_request
      [] code = 404 -> not_found
      [] code = 405 -> not_allowed
      [] code = 422 -> unprocessable

\* ------------------------------------------------------------------ handlers

\* GET /categories
retrieve_categories(cats) ==
    LET cat_dict == CatDict(cats)
    IN IF Cardinality(cat_dict) = 0
       THEN Abort(404)
       ELSE [Ok({"categories"}) EXCEPT !.categories = cat_dict]

\* GET /questions
retrieve_questions(table, cats, pageArg) ==
    LET selection == SortById(table)
        current_questions == paginate_questions(pageArg, selection, 1)
        cat_dict == CatDict(cats)
    IN IF Len(current_questions) = 0
       THEN Abort(404)
       ELSE [Ok({"questions", "total_questions", "categories"}) EXCEPT
                !.questions = current_questions,
                !.total_questions = Len(selection),
                !.categories = cat_dict]

\* The try block of delete_question: raised is the status of an abort() raised
\* inside it (an HTTPException, which is an Exception), None if it returned.
DeleteTry(table, question_id, pageArg) ==
    LET question == OneOrNone(table, question_id)
    IN IF question = None
       THEN [raised |-> Some(404), rows |-> table, response |-> NoResponse]
       ELSE LET left == QuestionDelete(table, question[1].id)
                selection == SortById(left)
                current_questions == paginate_questions(pageArg, selection, 1)
            IN [raised |-> None, rows |-> left,
                response |-> [Ok({"deleted", "questions", "total_questions"}) EXCEPT
                                 !.deleted = question_id,
                                 !.questions = current_questions,
                                 !.total_questions = Len(selection)]]

\* DELETE /questions/<int:question_id>: the bare except catches whatever the try
\* block raised and aborts with 422.
delete_question(table, question_id, pageArg) ==
    LET t == DeleteTry(table, question_id, pageArg)
    IN IF t.raised # None
       THEN [rows |-> t.rows, response |-> Abort(422)]
       ELSE [rows |-> t.rows, response |-> t.response]

\* Truthy as a test against None only: "" counts as a search term.
Truthy_NotNone(search) == search # None

\* Python truthiness of body.get('searchTerm', None): None and "" are falsy.
Truthy(search) == search # None /\ search[1] # <<>>

\* AnyNone with all() in place of any().
AnyNone_All(items) == \A i \in 1..Len(items) : items[i] = None

\* any(item is None for item in [...])
AnyNone(items) == \E i \in 1..Len(items) : items[i] = None

\* The search branch of create_search_question.
SearchBranch(table, search, pageArg) ==
    LET selection == SelectSeq(SortById(table),
                               LAMBDA r : r.question # None /\ ILike(r.question[1], search))
    IN IF Len(selection) = 0
       THEN Abort(404)
       ELSE [Ok({"questions", "total_questions"}) EXCEPT
                !.questions = paginate_questions(pageArg, selection, 1),
                !.total_questions = Len(selection)]

\* The try block of the create branch of create_search_question.
CreateTry(table, seqId, body, pageArg) ==
    LET new_question == BodyGet(body.question)
        new_answer == BodyGet(body.answer)
        new_category == BodyGet(body.category)
        new_difficulty == BodyGet(body.difficulty)
    IN IF AnyNone(<<new_question, new_answer, new_category, new_difficulty>>)
       THEN [raised |-> Some(422), rows |-> table, nextId |-> seqId, response |-> NoResponse]
       ELSE LET ins == QuestionInsert(table, seqId, new_question, new_answer,
                                      new_category, new_difficulty)
                selection == SortById(ins.rows)
                page_num == Ceil10(Len(selection))
                current_questions == paginate_questions(pageArg, selection, page_num)
            IN [raised |-> None, rows |-> ins.rows, nextId |-> ins.nextId,
                response |-> [Ok({"created", "questions", "total_questions"}) EXCEPT
                                 !.created = ins.id,
                                 !.questions = current_questions,
                                 !.total_questions = Len(selection)]]

\* POST /questions: search when searchTerm is truthy, else create.
create_search_question(table, seqId, body, pageArg) ==
    LET search == BodyGet(body.searchTerm)
    IN IF Truthy(search)
       THEN [rows |-> table, nextId |-> seqId,
             response |-> SearchBranch(table, search[1], pageArg)]
       ELSE LET t == CreateTry(table, seqId, body, pageArg)
            IN IF t.raised # None
               THEN [rows |-> t.rows, nextId |-> t.nextId, response |-> Abort(422)]
               ELSE [rows |-> t.rows, nextId |-> t.nextId, response |-> t.response]

\* Question.query.filter(Question.category == category.id).all(): no ORDER BY,
\* the rows come in storage order.
CategorySelection(table, category_id) ==
    SelectSeq(table, LAMBDA r : r.category = Some(category_id))

\* retrieve_questions_by_selected_category with the NotFound fallback of the
\* other listing endpoints on an empty page.
retrieve_questions_by_selected_category_Fallback(table, cats, category_id, pageArg) ==
    LET category == CategoryOrNone(cats, category_id)
    IN IF category = None
       THEN Abort(400)
       ELSE LET selection == CategorySelection(table, category[1].id)
                current_questions == paginate_questions(pageArg, selection, 1)
            IN IF Len(current_questions) = 0
               THEN Abort(404)
               ELSE [Ok({"questions", "total_questions", "current_category"}) EXCEPT
                       !.questions = current_questions,
                       !.total_questions = Len(selection),
                       !.current_category = category[1].type]

\* GET /categories/<int:category_id>/questions
retrieve_questions_by_selected_category(table, cats, category_id, pageArg) ==
    LET category == CategoryOrNone(cats, category_id)
    IN IF category = None
       THEN Abort(400)
       ELSE LET selection == CategorySelection(table, category[1].id)
                current_questions == paginate_questions(pageArg, selection, 1)
            IN [Ok({"questions", "total_questions", "current_category"}) EXCEPT
                   !.questions = current_questions,
                   !.total_questions = Len(selection),
                   !.current_category = category[1].type]

\* QuizPool without the exclusion of the previous questions.
QuizPool_NoExclusion(table, category_id, previous_questions) ==
    IF category_id = 0
    THEN RowSet(table)
    ELSE { r \in RowSet(table) : r.category = Some(category_id) }

\* The quiz pool: the questions of the category (all when the id is 0) whose id
\* is not among the previous questions.
QuizPool(table, category_id, previous_questions) ==
    LET questions == IF category_id = 0
                     THEN RowSet(table)
                     ELSE { r \in RowSet(table) : r.category = Some(category_id) }
    IN IF Cardinality(previous_questions) # 0
       THEN { r \in questions : r.id \notin previous_questions }
       ELSE questions

\* create_quiz_questions with the presence test written as a truthiness test
\* (not previous_questions): an empty list counts as missing.
create_quiz_questions_Falsy(table, body) ==
    LET previous_questions == BodyGet(body.previous_questions)
        quiz_category == BodyGet(body.quiz_category)
    IN IF \/ quiz_category = None
          \/ previous_questions = None
          \/ previous_questions[1] = {}
       THEN { Abort(400) }
       ELSE LET questions == QuizPool(table, quiz_category[1], previous_questions[1])
            IN IF Cardinality(questions) = 0
               THEN { Ok({}) }
               ELSE { [Ok({"question"}) EXCEPT !.question = Some(Format(q))] :
                        q \in questions }

\* POST /quizzes: the set of responses the handler can give (random.choice).
create_quiz_questions(table, body) ==
    LET previous_questions == BodyGet(body.previous_questions)
        quiz_category == BodyGet(body.quiz_category)
    IN IF quiz_category = None \/ previous_questions = None
       THEN { Abort(400) }
       ELSE LET questions == QuizPool(table, quiz_category[1], previous_questions[1])
            IN IF Cardinality(questions) = 0
               THEN { Ok({}) }
               ELSE { [Ok({"question"}) EXCEPT !.question = Some(Format(q))] :
                        q \in questions }

\* ------------------------------------------------------------------ inputs

\* A body carrying the four fields of a new question.
QuestionBody(q, a, c, d) ==
    [NoBody EXCEPT !.question = q, !.answer = a, !.category = c, !.difficulty = d]

\* Bodies with all four fields present.
FullBodies ==
    { QuestionBody(Val(t), Val(AnswerText), Val(c), Val(1)) :
        t \in {<<"A", "b">>, <<"c">>}, c \in {1, 3} }

AFullBody == QuestionBody(Val(<<"A", "b">>), Val(AnswerText), Val(1), Val(1))

\* Bodies with one of the four fields absent or null, and the empty body.
PartialBodies ==
    { [AFullBody EXCEPT !.question = f] : f \in {Absent(<<>>), Null(<<>>)} }
    \cup { [AFullBody EXCEPT !.answer = f] : f \in {Absent(<<>>), Null(<<>>)} }
    \cup { [AFullBody EXCEPT !.category = f] : f \in {Absent(0), Null(0)} }
    \cup { [AFullBody EXCEPT !.difficulty = f] : f \in {Absent(0), Null(0)} }
    \cup { NoBody }

\* Bodies carrying a searchTerm, alone or beside the four fields.
SearchBodies ==
    { [NoBody EXCEPT !.searchTerm = Val(s)] : s \in SearchTerms }
    \cup { [AFullBody EXCEPT !.searchTerm = f] :
             f \in {Val(<<"a">>), Val(<<>>), Null(<<>>)} }

PostQuestionBodies == FullBodies \cup PartialBodies \cup SearchBodies

\* Ids a DELETE names: those of the table and one beyond the sequence.
DeleteIds(table, seqId) == Ids(table) \cup {seqId}

\* previous_questions of a quiz request, as the set of the ids listed.
PreviousSets(table) ==
    { {}, Ids(table), { i \in Ids(table) : \A j \in Ids(table) : i <= j } }

QuizBodies(table) ==
    { [NoBody EXCEPT !.previous_questions = p, !.quiz_category = c] :
        p \in {Absent({}), Null({})} \cup { Val(x) : x \in PreviousSets(table) },
        c \in {Absent(0), Null(0)} \cup { Val(x) : x \in {0, 1, 3} } }

\* ------------------------------------------------------------------ initial state

TextCycle == << <<"A", "b">>, <<"b", "a">>, <<"c">> >>

\* The i-th question the table holds at start.
SeedRow(i) ==
    Row(i, Some(TextCycle[((i \div 2) % 3) + 1]), Some(AnswerText),
        Some((i % 3) + 1), Some((i % 5) + 1))

\* n seeded questions, stored in ascending or in descending id order.
SeedTable(n, layout) ==
    [k \in 1..n |-> IF layout = "asc" THEN SeedRow(k) ELSE SeedRow(n + 1 - k)]

\* Table sizes at start: empty, one row, and the sizes around the page size.
InitSizes == {0, 1} \cup ((QUESTIONS_PER_PAGE - 1)..MaxInit)

Init ==
    /\ \E n \in InitSizes, layout \in {"asc", "desc"} :
          /\ rows = SeedTable(n, layout)
          /\ nextId = n + 1
    /\ categories = CategoryTable
    /\ writes = 0
    /\ before = rows
    /\ request = NoRequest
    /\ response = NoResponse

\* ------------------------------------------------------------------ actions

\* A request is taken only when the previous response has been returned.
Idle == request = NoRequest

RetrieveCategories ==
    /\ Idle
    /\ request' = Request("GET /categories", 0, None, NoBody)
    /\ response' = retrieve_categories(categories)
    /\ before' = rows
    /\ UNCHANGED <<rows, nextId, categories, writes>>

RetrieveQuestions ==
    /\ Idle
    /\ \E page \in PageArgs :
          /\ request' = Request("GET /questions", 0, page, NoBody)
          /\ response' = retrieve_questions(rows, categories, page)
    /\ before' = rows
    /\ UNCHANGED <<rows, nextId, categories, writes>>

DeleteQuestion ==
    /\ Idle
    /\ \E question_id \in DeleteIds(rows, nextId), page \in FewPageArgs :
          \E r \in { delete_question(rows, question_id, page) } :
             /\ r.rows # rows => writes < MaxWrites
             /\ request' = Request("DELETE /questions", question_id, page, NoBody)
             /\ response' = r.response
             /\ rows' = r.rows
             /\ writes' = IF r.rows # rows THEN writes + 1 ELSE writes
    /\ before' = rows
    /\ UNCHANGED <<nextId, categories>>

CreateSearchQuestion ==
    /\ Idle
    /\ \E body \in PostQuestionBodies, page \in FewPageArgs :
          \E r \in { create_search_question(rows, nextId, body, page) } :
             /\ r.rows # rows => writes < MaxWrites
             /\ request' = Request("POST /questions", 0, page, body)
             /\ response' = r.response
             /\ rows' = r.rows
             /\ nextId' = r.nextId
             /\ writes' = IF r.rows # rows THEN writes + 1 ELSE writes
    /\ before' = rows
    /\ UNCHANGED categories

RetrieveQuestionsByCategory ==
    /\ Idle
    /\ \E category_id \in CategoryIds, page \in FewPageArgs :
          /\ request' = Request("GET /categories/questions", category_id, page, NoBody)
          /\ response' = retrieve_questions_by_selected_category(rows, categories,
                                                                  category_id, page)
    /\ before' = rows
    /\ UNCHANGED <<rows, nextId, categories, writes>>

CreateQuizQuestions ==
    /\ Idle
    /\ \E body \in QuizBodies(rows) :
          \E r \in create_quiz_questions(rows, body) :
             /\ request' = Request("POST /quizzes", 0, None, body)
             /\ response' = r
    /\ before' = rows
    /\ UNCHANGED <<rows, nextId, categories, writes>>

\* The response leaves through after_request; the application waits for the
\* next request.
after_request ==
    /\ ~Idle
    /\ request' = NoRequest
    /\ response' = NoResponse
    /\ before' = rows
    /\ UNCHANGED <<rows, nextId, categories, writes>>

Next ==
    \/ RetrieveCategories
    \/ RetrieveQuestions
    \/ DeleteQuestion
    \/ CreateSearchQuestion
    \/ RetrieveQuestionsByCategory
    \/ CreateQuizQuestions
    \/ after_request

Spec == Init /\ [][Next]_vars

\* ------------------------------------------------------------------ typing

TypeOK ==
    /\ writes \in 0..MaxWrites
    /\ nextId \in Nat
    /\ \A i \in 1..Len(rows) : rows[i].id < nextId
    /\ \A i, j \in 1..Len(rows) : i # j => rows[i].id # rows[j].id
    /\ response.status \in {0, 200, 400, 404, 405, 422}

\* ------------------------------------------------------------------ claim vocabulary

IsDelete == request.op = "DELETE /questions"

IsPostQuestions == request.op = "POST /questions"

IsGetQuestions == request.op = "GET /questions"

\* The page a request asks for: 1 when the parameter is absent.
RequestedPage == IF request.page = None THEN 1 ELSE request.page[1]

\* The NotFound envelope as the claims word it.
IsNotFoundEnvelope(r) ==
    r.status = 404 /\ r.success = FALSE /\ r.message = "resource not found"

IsUnprocessableEnvelope(r) ==
    r.status = 422 /\ r.success = FALSE /\ r.message = "unprocessable"

IsBadRequestEnvelope(r) ==
    r.status = 400 /\ r.success = FALSE /\ r.message = "bad request"

\* The position of a row among the rows of its table in id order, from 1.
Rank(table, r) == Cardinality({ x \in RowSet(table) : x.id <= r.id })

\* The rows of a table at positions lo..hi of its id order, in that order.
OrderedRange(table, lo, hi) ==
    LET last == Min(hi, Len(table))
    IN [k \in 1..Max(last - lo + 1, 0) |->
          Format(CHOOSE r \in RowSet(table) : Rank(table, r) = lo + k - 1)]

\* Page p >= 1 of the id-ordered table.
OrderedPage(table, p) ==
    OrderedRange(table, (p - 1) * QUESTIONS_PER_PAGE + 1, p * QUESTIONS_PER_PAGE)

LastPageNumber(table) == Ceil10(Len(table))

\* Whether text t holds s as a substring, letter case ignored.
ContainsIgnoringCase(t, s) ==
    \E i \in 1..(Len(t) - Len(s) + 1) :
       \A k \in 1..Len(s) : Lower(t[i + k - 1]) = Lower(s[k])

\* The search term is absent, null or empty.
NoSearchTerm(body) == body.searchTerm.kind # "value" \/ body.searchTerm.v = <<>>

FourFields(body) == <<body.question, body.answer, body.category, body.difficulty>>

AllFourPresent(body) == \A i \in 1..4 : FourFields(body)[i].kind = "value"

\* No response any endpoint gives on this table shows a question with this id.
NotRetrievable(table, id) ==
    /\ \A page \in PageArgs :
          /\ id \notin Ids(retrieve_questions(table, categories, page).questions)
          /\ \A c \in CategoryIds :
                id \notin Ids(retrieve_questions_by_selected_category(
                                 table, categories, c, page).questions)
          /\ \A body \in SearchBodies :
                id \notin Ids(create_search_question(table, nextId, body, page).response.questions)
          /\ delete_question(table, id, page).response.status # 200
    /\ \A body \in QuizBodies(table) :
          \A r \in create_quiz_questions(table, body) :
             r.question = None \/ r.question[1].id # id

\* ------------------------------------------------------------------ C1

\* C1: DELETE /questions/{id} for an id that matches no stored question answers
\* with the NotFound envelope and leaves the stored questions unchanged.
C1_DeleteMissingNotFound ==
    (IsDelete /\ request.id \notin Ids(before)) =>
       (IsNotFoundEnvelope(response) /\ rows = before)

\* ------------------------------------------------------------------ C2

\* C2: DELETE /questions/{id} for a stored id answers 200 with deleted = id;
\* the id is then retrievable by no request, the count is one less, every other
\* question is unchanged, and total_questions is the new count.
C2_DeleteExisting ==
    (IsDelete /\ request.id \in Ids(before)) =>
       /\ response.status = 200
       /\ response.success
       /\ "deleted" \in response.keys
       /\ response.deleted = request.id
       /\ request.id \notin Ids(rows)
       /\ Len(rows) = Len(before) - 1
       /\ RowSet(rows) = { r \in RowSet(before) : r.id # request.id }
       /\ response.total_questions = Len(rows)
       /\ NotRetrievable(rows, request.id)

C2_Witness ==
    /\ IsDelete
    /\ request.id \in Ids(before)
    /\ response.status = 200
    /\ Len(before) > QUESTIONS_PER_PAGE
    /\ \E i \in Ids(before) : i > request.id

\* ------------------------------------------------------------------ C3

\* C3: creating a question through POST /questions with all four fields
\* present answers 200 with created a newly assigned id of a record now stored,
\* and a following GET /questions reports a total one more than before.
C3_CreateAddsOne ==
    (IsPostQuestions /\ NoSearchTerm(request.body) /\ AllFourPresent(request.body)) =>
       /\ response.status = 200
       /\ response.success
       /\ "created" \in response.keys
       /\ response.created \notin Ids(before)
       /\ response.created \in Ids(rows)
       /\ RowSet(before) \subseteq RowSet(rows)
       /\ LET get == retrieve_questions(rows, categories, None)
          IN get.status = 200 /\ get.total_questions = Len(before) + 1

C3_Witness ==
    /\ IsPostQuestions
    /\ NoSearchTerm(request.body)
    /\ AllFourPresent(request.body)
    /\ request.body.searchTerm.kind = "value"
    /\ response.status = 200
    /\ response.created \in Ids(rows)
    /\ Len(rows) = QUESTIONS_PER_PAGE + 1

\* ------------------------------------------------------------------ C4

\* C4 as stated: POST /questions whose body has any of the four required fields
\* absent or null answers with the Unprocessable envelope and adds no question.
C4_MissingFieldUnprocessable ==
    (IsPostQuestions /\ ~AllFourPresent(request.body)) =>
       (IsUnprocessableEnvelope(response) /\ rows = before)

\* C4 amended: POST /questions whose body has no non-empty searchTerm and has
\* any of the four required fields absent or null answers with the
\* Unprocessable envelope and adds no question.
C4_MissingFieldUnprocessableOnCreate ==
    (IsPostQuestions /\ NoSearchTerm(request.body) /\ ~AllFourPresent(request.body)) =>
       (IsUnprocessableEnvelope(response) /\ rows = before)

C4_Witness ==
    /\ IsPostQuestions
    /\ NoSearchTerm(request.body)
    /\ request.body.question.kind = "value"
    /\ request.body.answer.kind = "value"
    /\ request.body.category.kind = "value"
    /\ request.body.difficulty.kind = "null"
    /\ response.status = 422
    /\ rows = before
    /\ Len(rows) > 0

\* ------------------------------------------------------------------ C5

\* C5: on every successful create the questions of the response are the last
\* page, page ceil(total/10), of the id-ordered questions after the insert,
\* whatever the query parameters of the request.
C5_CreateReturnsLastPage ==
    (IsPostQuestions /\ response.status = 200 /\ "created" \in response.keys) =>
       /\ response.total_questions = Len(rows)
       /\ response.questions = OrderedPage(rows, LastPageNumber(rows))

\* ------------------------------------------------------------------ C6

RECURSIVE ConcatPages(_, _, _)
\* The questions of the responses to GET /questions?page=p..last, in order.
ConcatPages(table, p, last) ==
    IF p > last THEN <<>>
    ELSE retrieve_questions(table, categories, Some(p)).questions
         \o ConcatPages(table, p + 1, last)

\* C6: for every page p >= 1, GET /questions?page=p returns at most 10
\* questions, those at offsets (p-1)*10..p*10-1 of the id-ordered questions,
\* and pages 1..ceil(n/10) together are the id-ordered questions, each once.
C6_PagesPartitionOrder ==
    (IsGetQuestions /\ RequestedPage >= 1) =>
       /\ Len(response.questions) <= QUESTIONS_PER_PAGE
       /\ response.questions = OrderedPage(before, RequestedPage)
       /\ ConcatPages(before, 1, LastPageNumber(before))
             = OrderedRange(before, 1, Len(before))

C6_Witness ==
    /\ IsGetQuestions
    /\ RequestedPage = 2
    /\ response.status = 200
    /\ Len(response.questions) = 2
    /\ before # SortById(before)

\* ------------------------------------------------------------------ C7

\* C7: for a page out of range (beyond ceil(n/10), or below 1) the pagination
\* yields the empty sequence and GET /questions answers with the NotFound
\* envelope; for a page in range it answers 200 with total_questions = n.
C7_OutOfRangeNotFound ==
    IsGetQuestions =>
       IF RequestedPage < 1 \/ RequestedPage > LastPageNumber(before)
       THEN /\ paginate_questions(request.page, SortById(before), 1) = <<>>
            /\ IsNotFoundEnvelope(response)
       ELSE /\ response.status = 200
            /\ response.total_questions = Len(before)

\* ------------------------------------------------------------------ C8

\* C8: POST /questions with a non-empty searchTerm s creates nothing and answers
\* 404 exactly when no stored question text contains s, case ignored; otherwise
\* 200, every returned text contains s, and total_questions counts all matches.
C8_SearchIsSubstring ==
    (IsPostQuestions /\ ~NoSearchTerm(request.body)) =>
       LET s == request.body.searchTerm.v
           matches == { r \in RowSet(before) : ContainsIgnoringCase(r.question[1], s) }
       IN /\ rows = before
          /\ IF matches = {}
             THEN IsNotFoundEnvelope(response)
             ELSE /\ response.status = 200
                  /\ \A i \in 1..Len(response.questions) :
                        ContainsIgnoringCase(response.questions[i].question[1], s)
                  /\ response.total_questions = Cardinality(matches)

\* ------------------------------------------------------------------ C9

IsPostQuizzes == request.op = "POST /quizzes"

\* The candidate pool of a quiz: the questions of category c (all when c is 0)
\* less those whose id is in P.
CandidatePool(table, c, P) ==
    { r \in RowSet(table) : (c = 0 \/ r.category = Some(c)) /\ r.id \notin P }

\* C9: POST /quizzes with previous_questions P and quiz_category id c answers
\* 200 with a question of the candidate pool when the pool is not empty, and
\* 200 with success and no question field when it is empty; the store is
\* unchanged.
C9_QuizFromPool ==
    (/\ IsPostQuizzes
     /\ request.body.previous_questions.kind = "value"
     /\ request.body.quiz_category.kind = "value") =>
       LET P == request.body.previous_questions.v
           c == request.body.quiz_category.v
           pool == CandidatePool(before, c, P)
       IN /\ rows = before
          /\ response.status = 200
          /\ response.success
          /\ IF pool = {}
             THEN "question" \notin response.keys /\ response.question = None
             ELSE /\ "question" \in response.keys
                  /\ response.question # None
                  /\ \E r \in pool : response.question[1] = Format(r)
                  /\ response.question[1].id \notin P
                  /\ c = 0 \/ response.question[1].category = Some(c)

C9_Witness ==
    /\ IsPostQuizzes
    /\ request.body.previous_questions.kind = "value"
    /\ request.body.previous_questions.v # {}
    /\ request.body.quiz_category.kind = "value"
    /\ request.body.quiz_category.v = 1
    /\ response.status = 200
    /\ response.question # None
    /\ Cardinality(CandidatePool(before, 1, request.body.previous_questions.v)) > 1

\* ------------------------------------------------------------------ C10

IsGetByCategory == request.op = "GET /categories/questions"

\* C10: GET /categories/{id}/questions answers with the BadRequest envelope
\* exactly when no category has that id; for an existing category it answers
\* 200 on every page, the returned questions all have that category,
\* total_questions counts the questions of the category and current_category
\* is the category's type.
C10_ByCategory ==
    IsGetByCategory =>
       LET exists == \E c \in categories : c.id = request.id
           ofCategory == { r \in RowSet(before) : r.category = Some(request.id) }
       IN /\ IsBadRequestEnvelope(response) <=> ~exists
          /\ exists =>
                /\ response.status = 200
                /\ response.success
                /\ \A i \in 1..Len(response.questions) :
                      response.questions[i].category = Some(request.id)
                /\ response.total_questions = Cardinality(ofCategory)
                /\ \E c \in categories :
                      c.id = request.id /\ response.current_category = c.type

C10_Witness ==
    /\ IsGetByCategory
    /\ \E c \in categories : c.id = request.id
    /\ response.status = 200
    /\ response.questions = <<>>
    /\ response.total_questions > 0

\* ------------------------------------------------------------------ C11

\* C11: POST /quizzes answers with the BadRequest envelope whenever
\* quiz_category or previous_questions is absent or null in the body, and never
\* answers 400 when both are present; an empty previous_questions together
\* with a quiz_category is answered with 200.
C11_QuizBadRequest ==
    IsPostQuizzes =>
       LET missing == \/ request.body.previous_questions.kind # "value"
                      \/ request.body.quiz_category.kind # "value"
       IN /\ missing => (IsBadRequestEnvelope(response) /\ rows = before)
          /\ ~missing => response.status # 400
          /\ (~missing /\ request.body.previous_questions.v = {}) =>
                (response.status = 200 /\ response.success)

C11_Witness ==
    /\ IsPostQuizzes
    /\ request.body.previous_questions.kind = "value"
    /\ request.body.previous_questions.v = {}
    /\ request.body.quiz_category.kind = "null"
    /\ response.status = 400
    /\ Len(rows) > 0

====
